---------------------------- MODULE Spec2Model ----------------------------
(***************************************************************************)
(* Model of gee_toolbox/gee/assets.py: list_assets (the recursive asset    *)
(* enumeration) and prune (validation, enumeration, depth ordering,        *)
(* confirmation gate and per-item deletion).                               *)
(*                                                                         *)
(* An asset path is modelled by its sequence of segments (Asset.parts), so *)
(* the depth of a path is Len(path).  The remote Earth Engine namespace is *)
(* the variable ns (the set of paths that currently exist) together with   *)
(* the fixed kind assignment Kind.  Every remote call is recorded in the   *)
(* history variable calls.                                                 *)
(***************************************************************************)
EXTENDS Integers, Sequences, FiniteSets, TLC

(***************************************************************************)
(* Bounds of the model.                                                    *)
(***************************************************************************)
\* number of times the confirmation prompt may be shown in one run
MaxPrompts == 2

\* number of assets of the namespaces list_assets is called against
MaxAssets == 6

(***************************************************************************)
(* The remote namespace.                                                   *)
(***************************************************************************)
P0  == <<"proj">>
PA  == <<"proj", "a">>
PB  == <<"proj", "a", "b">>
PI  == <<"proj", "a", "img">>
PC  == <<"proj", "ic">>
PC1 == <<"proj", "ic", "i1">>
PC2 == <<"proj", "ic", "i2">>
PS  == <<"proj", "a", "standalone">>
PN  == <<"proj", "a", "n">>
PN1 == <<"proj", "a", "n", "i">>
PT  == <<"proj", "t">>
PX  == <<"proj", "gone">>

\* every asset a namespace may hold, in the order the remote service lists
\* them
AllAssets == <<P0, PA, PB, PI, PS, PN, PN1, PC, PC1, PC2, PT>>

Kind == (P0 :> "FOLDER") @@ (PA :> "FOLDER") @@ (PB :> "FOLDER") @@
        (PI :> "IMAGE") @@ (PS :> "IMAGE") @@ (PN :> "IMAGE_COLLECTION") @@
        (PN1 :> "IMAGE") @@ (PC :> "IMAGE_COLLECTION") @@
        (PC1 :> "IMAGE") @@ (PC2 :> "IMAGE") @@ (PT :> "TABLE")

\* a folder with an empty sub-folder, an image, a collection and a table
NsBase == {P0, PA, PB, PI, PC, PC1, PT}

\* collections at two depths next to a standalone image
NsSweep == {P0, PA, PS, PN, PN1, PC, PC1, PC2}

\* the namespaces prune is run against
PruneNamespaces == {NsBase, NsSweep}

Range(s) == {s[i] : i \in 1..Len(s)}

\* the paths a caller may pass as the asset to prune (PX does not exist)
Roots == Range(AllAssets) \cup {PX}

IsChild(c, p) == Len(c) = Len(p) + 1 /\ SubSeq(c, 1, Len(p)) = p

IsDescendant(c, p) == Len(c) > Len(p) /\ SubSeq(c, 1, Len(p)) = p

\* ee.data.listAssets({"parent": p})["assets"] against the namespace live
listAssets(p, live) ==
  LET kept == SelectSeq(AllAssets, LAMBDA c : c \in live /\ IsChild(c, p))
  IN  [i \in 1..Len(kept) |-> [name |-> kept[i], type |-> Kind[kept[i]]]]

\* a record of one remote call
Call(op, path, ok) == [op |-> op, path |-> path, ok |-> ok]

(***************************************************************************)
(* _check_asset_types                                                      *)
(***************************************************************************)
ALLOWED_ASSET_TYPES == {"IMAGE", "TABLE", "FOLDER", "IMAGE_COLLECTION"}

\* the type names a caller may pass
TypeNames == ALLOWED_ASSET_TYPES \cup {"folder", "BOGUS"}

\* str.upper on the type names of the model
upper(t) == IF t = "folder" THEN "FOLDER" ELSE t

\* variant: IMAGE is added whenever IMAGE_COLLECTION is asked for
_check_asset_types_with_images(asset_types) ==
  LET given == IF asset_types = {} THEN ALLOWED_ASSET_TYPES ELSE asset_types
      up    == {upper(t) : t \in given}
      more  == IF "IMAGE_COLLECTION" \in up THEN up \cup {"IMAGE"} ELSE up
  IN  IF up \subseteq ALLOWED_ASSET_TYPES
      THEN [ok |-> TRUE, types |-> more]
      ELSE [ok |-> FALSE, types |-> {}]

_check_asset_types(asset_types) ==
  LET given == IF asset_types = {} THEN ALLOWED_ASSET_TYPES ELSE asset_types
      up    == {upper(t) : t \in given}
  IN  IF up \subseteq ALLOWED_ASSET_TYPES
      THEN [ok |-> TRUE, types |-> up]
      ELSE [ok |-> FALSE, types |-> {}]

get_asset_names(asset_list) == [i \in 1..Len(asset_list) |-> asset_list[i].name]

get_asset_types(asset_list) == [i \in 1..Len(asset_list) |-> asset_list[i].type]

(***************************************************************************)
(* list_assets                                                             *)
(*                                                                         *)
(* The result is a record: ok (FALSE when the call raises), err (the       *)
(* error raised), recs (the returned asset_list) and calls (the remote     *)
(* calls issued, in order).  live is the set of existing paths and bad the *)
(* set of containers whose listing the remote service fails.               *)
(***************************************************************************)
Raised(err, calls) == [ok |-> FALSE, err |-> err, recs |-> <<>>, calls |-> calls]

Returned(recs, calls) == [ok |-> TRUE, err |-> "none", recs |-> recs, calls |-> calls]

\* variant: the images of folders are kept with image_collections_exclusively
KeepEveryChild(child_asset, parent_type, image_collections_exclusively) ==
  TRUE

\* the test that decides whether a listed child is appended to asset_list
KeepChild(child_asset, parent_type, image_collections_exclusively) ==
  \/ ~image_collections_exclusively
  \/ child_asset.type # "IMAGE"
  \/ parent_type = "IMAGE_COLLECTION"

\* variant: no final filter
FilterNothing(asset_list, asset_types) == asset_list

\* variant: the final filter lets every folder through
FilterKeepsFolders(asset_list, asset_types) ==
  SelectSeq(asset_list, LAMBDA a : a.type \in asset_types \/ a.type = "FOLDER")

\* the final filter of list_assets
FilterTypes(asset_list, asset_types) ==
  SelectSeq(asset_list, LAMBDA a : a.type \in asset_types)

\* variant: only an IMAGE is refused as parent
IsNotImage(parent_type) == parent_type # "IMAGE"

\* variant: sub-folders are never entered
NeverRecurses(recursive, child_asset) == FALSE

\* variant: image collections are entered whatever the flag
ExpandsAlways(expand_image_collections, child_asset) ==
  child_asset.type = "IMAGE_COLLECTION"

\* the types of asset list_assets accepts as parent
IsContainerType(parent_type) == parent_type \in {"FOLDER", "IMAGE_COLLECTION"}

\* the test of the recursive call into a sub-folder
Recurses(recursive, child_asset) ==
  recursive /\ child_asset.type = "FOLDER"

\* the test of the recursive call into an image collection
Expands(expand_image_collections, child_asset) ==
  expand_image_collections /\ child_asset.type = "IMAGE_COLLECTION"

RECURSIVE list_assets(_, _, _, _, _, _, _, _)
RECURSIVE IterateChildren(_, _, _, _, _, _, _, _, _)

\* the for loop over child_assets, from index i on, acc being the
\* asset_list and the calls accumulated so far
IterateChildren(child_assets, i, parent_type, recursive, expand_image_collections, image_collections_exclusively, live, bad, acc) ==
  IF i > Len(child_assets) THEN acc
  ELSE
    LET child_asset == child_assets[i]
        appended == IF KeepChild(child_asset, parent_type,
                                 image_collections_exclusively)
                    THEN Append(acc.recs, child_asset)
                    ELSE acc.recs
        nested ==
          IF Recurses(recursive, child_asset)
          THEN list_assets(child_asset.name, {}, TRUE, FALSE,
                           expand_image_collections,
                           image_collections_exclusively, live, bad)
          ELSE IF Expands(expand_image_collections, child_asset)
          THEN list_assets(child_asset.name, {}, TRUE, FALSE, TRUE, FALSE,
                           live, bad)
          ELSE Returned(<<>>, <<>>)
    IN  IF ~nested.ok
        THEN Raised(nested.err, acc.calls \o nested.calls)
        ELSE IterateChildren(child_assets, i + 1, parent_type, recursive,
                             expand_image_collections,
                             image_collections_exclusively, live, bad,
                             Returned(appended \o nested.recs,
                                      acc.calls \o nested.calls))

list_assets(parent, asset_types, recursive, inclusive, expand_image_collections, image_collections_exclusively, live, bad) ==
  LET checked == _check_asset_types(asset_types)
      resolve == <<Call("get", parent, parent \in live)>>
  IN
  IF ~checked.ok THEN Raised("InvalidPolicy", <<>>)
  ELSE IF parent \notin live THEN Raised("NotFound", resolve)
  ELSE
    LET parent_type == Kind[parent] IN
    IF ~IsContainerType(parent_type)
    THEN Raised("NotAContainer", resolve)
    ELSE
      LET expand == IF parent_type = "IMAGE_COLLECTION"
                    THEN TRUE ELSE expand_image_collections
          listing == Append(resolve, Call("list", parent, parent \notin bad))
      IN
      IF parent \in bad THEN Raised("RemoteError", listing)
      ELSE
        LET first == IF inclusive
                     THEN <<[name |-> parent, type |-> parent_type]>>
                     ELSE <<>>
            walked == IterateChildren(listAssets(parent, live), 1,
                                      parent_type, recursive, expand,
                                      image_collections_exclusively,
                                      live, bad, Returned(first, listing))
        IN  IF ~walked.ok THEN walked
            ELSE Returned(FilterTypes(walked.recs, checked.types),
                          walked.calls)

(***************************************************************************)
(* prune: the state of one run                                             *)
(***************************************************************************)
VARIABLES
  asset,                     \* argument: the path to prune
  asset_types_arg,           \* argument: the type names given by the caller
  recursive,                 \* argument
  expand_image_collections,  \* argument
  inclusive,                 \* argument
  silent,                    \* argument
  dry_run,                   \* argument
  asset_types,               \* local: the checked (and adjusted) types
  image_collections_exclusively,
  asset_list,                \* local: the candidates
  assets_ordered,            \* local: the buckets, in iteration order
  ordered_bound,             \* whether the name assets_ordered is bound
  delete_confirmation,       \* local: "unset", "yes" or "no"
  pending,                   \* the assets the deleting loop has yet to visit
  results,                   \* the dictionary prune returns
  pc,                        \* the position of the run
  err,                       \* the error that ended the run, or "none"
  ns,                        \* remote: the paths that exist
  calls,                     \* history: the remote calls issued, in order
  prompts,                   \* history: how many times input() was called
  answer                     \* history: the last answer typed at the prompt

args == <<asset, asset_types_arg, recursive, expand_image_collections,
          inclusive, silent, dry_run>>

locals == <<asset_types, image_collections_exclusively, asset_list,
            assets_ordered, ordered_bound, delete_confirmation, pending,
            results>>

vars == <<args, locals, pc, err, ns, calls, prompts, answer>>

\* the answers a user may type at the prompt
Answers == {"y", "Y", "n", "N", "", "maybe"}

\* str.lower on the answers of the model
lower(a) == IF a = "Y" THEN "y" ELSE IF a = "N" THEN "n" ELSE a

Init ==
  /\ asset \in Roots
  /\ asset_types_arg \in SUBSET TypeNames
  /\ recursive \in BOOLEAN
  /\ expand_image_collections \in BOOLEAN
  /\ inclusive \in BOOLEAN
  /\ silent \in BOOLEAN
  /\ dry_run \in BOOLEAN
  /\ asset_types = {}
  /\ image_collections_exclusively = FALSE
  /\ asset_list = <<>>
  /\ assets_ordered = <<>>
  /\ ordered_bound = FALSE
  /\ delete_confirmation = "unset"
  /\ pending = <<>>
  /\ results = [deleted |-> <<>>, failed |-> <<>>, skipped |-> <<>>]
  /\ pc = "exists"
  /\ err = "none"
  /\ ns \in PruneNamespaces
  /\ calls = <<>>
  /\ prompts = 0
  /\ answer = "none"

\* an exception leaves prune
Raise(e) == pc' = "error" /\ err' = e

(***************************************************************************)
(* prune, lines 211-214: _asset.exists(raised=True)                        *)
(***************************************************************************)
\* variant: the existence of the asset is probed by listing it
ExistsByListing ==
  /\ pc = "exists"
  /\ calls' = Append(calls, Call("list", asset, asset \in ns))
  /\ IF asset \in ns
     THEN pc' = "validate" /\ err' = err
     ELSE Raise("NotFound")
  /\ UNCHANGED <<args, locals, ns, prompts, answer>>

Exists ==
  /\ pc = "exists"
  /\ calls' = Append(calls, Call("get", asset, asset \in ns))
  /\ IF asset \in ns
     THEN pc' = "validate" /\ err' = err
     ELSE Raise("NotFound")
  /\ UNCHANGED <<args, locals, ns, prompts, answer>>

(***************************************************************************)
(* prune, lines 215-250: the policy checks                                 *)
(***************************************************************************)
\* variant: only FOLDER on its own is refused
FolderAlone(types) == types = {"FOLDER"}

\* asset_types includes FOLDER but omits another allowed type
FolderOmitsTypes(types) ==
  /\ \E asset_type \in types : asset_type = "FOLDER"
  /\ ~(\A allowed_type \in ALLOWED_ASSET_TYPES : allowed_type \in types)

\* variant: refused only when both flags are missing
FolderNeedsOneFlag(types, is_image_collection, rec, expand) ==
  /\ "FOLDER" \in types
  /\ ~is_image_collection
  /\ (~rec /\ ~expand)

\* deleting folders without recursive and expand_image_collections
FolderNeedsFlags(types, is_image_collection, rec, expand) ==
  /\ "FOLDER" \in types
  /\ ~is_image_collection
  /\ (~rec \/ ~expand)

\* deleting image collections without expand_image_collections
CollectionNeedsExpand(types, expand) ==
  "IMAGE_COLLECTION" \in types /\ ~expand

\* image collections are targeted without their images being named
CollectionsWithoutImages(types) ==
  "IMAGE_COLLECTION" \in types /\ ~("IMAGE" \in types)

\* _asset.is_image_collection() is evaluated only when FOLDER is a type
KindCalls(types) ==
  IF "FOLDER" \in types
  THEN <<Call("get", asset, asset \in ns)>>
  ELSE <<>>

Validate ==
  /\ pc = "validate"
  /\ LET checked == _check_asset_types(asset_types_arg)
         types == checked.types
         is_image_collection == asset \in ns /\ Kind[asset] = "IMAGE_COLLECTION"
     IN
     IF ~checked.ok
     THEN /\ Raise("InvalidPolicy")
          /\ UNCHANGED <<asset_types, image_collections_exclusively, calls>>
     ELSE IF FolderOmitsTypes(types)
     THEN /\ Raise("InvalidPolicy")
          /\ asset_types' = types
          /\ UNCHANGED <<image_collections_exclusively, calls>>
     ELSE IF FolderNeedsFlags(types, is_image_collection, recursive,
                              expand_image_collections)
     THEN /\ Raise("InvalidPolicy")
          /\ asset_types' = types
          /\ calls' = calls \o KindCalls(types)
          /\ UNCHANGED image_collections_exclusively
     ELSE IF CollectionNeedsExpand(types, expand_image_collections)
     THEN /\ Raise("InvalidPolicy")
          /\ asset_types' = types
          /\ calls' = calls \o KindCalls(types)
          /\ UNCHANGED image_collections_exclusively
     ELSE /\ pc' = "enumerate"
          /\ err' = err
          /\ calls' = calls \o KindCalls(types)
          /\ IF CollectionsWithoutImages(types)
             THEN /\ image_collections_exclusively' = TRUE
                  /\ asset_types' = types \cup {"IMAGE"}
             ELSE /\ image_collections_exclusively' = FALSE
                  /\ asset_types' = types
  /\ UNCHANGED <<args, asset_list, assets_ordered, ordered_bound,
                 delete_confirmation, pending, results, ns, prompts, answer>>

(***************************************************************************)
(* prune, lines 252-279: enumeration and the split per level               *)
(***************************************************************************)
\* the remote lookups of is_folder() and is_image_collection()
ContainerCalls ==
  <<Call("get", asset, asset \in ns)>>
  \o (IF Kind[asset] = "FOLDER" THEN <<>>
      ELSE <<Call("get", asset, asset \in ns)>>)

is_container == Kind[asset] \in {"FOLDER", "IMAGE_COLLECTION"}

\* the containers whose listing the remote service may fail in one run
BadChoices ==
  {{}} \cup {{c} : c \in {a \in ns : Kind[a] \in {"FOLDER", "IMAGE_COLLECTION"}}}

\* the for loop that fills assets_ordered: one bucket per level, in the
\* order the levels are first met
\* variant: the separators are counted instead of the parts
SeparatorCount(path) == Len(path) - 1

\* len(_target_asset.parts)
Level(path) == Len(path)

RECURSIVE GroupByLevel(_, _)
GroupByLevel(targets, buckets) ==
  IF targets = <<>> THEN buckets
  ELSE
    LET _target_asset == Head(targets).name
        lvl == Level(_target_asset)
        known == \E i \in 1..Len(buckets) : buckets[i].lvl = lvl
        with_key == IF known THEN buckets
                    ELSE Append(buckets, [lvl |-> lvl, assets |-> <<>>])
    IN  GroupByLevel(Tail(targets),
          [i \in 1..Len(with_key) |->
             IF with_key[i].lvl = lvl
             THEN [with_key[i] EXCEPT !.assets = Append(@, _target_asset)]
             ELSE with_key[i]])

\* variant: the buckets sorted without reverse=True
SortedForward(buckets) ==
  LET n == Len(buckets)
      rank(i) == 1 + Cardinality({j \in 1..n : buckets[j].lvl < buckets[i].lvl})
  IN  [k \in 1..n |-> buckets[CHOOSE i \in 1..n : rank(i) = k]]

\* dict(sorted(assets_ordered.items(), reverse=True))
SortedReverse(buckets) ==
  LET n == Len(buckets)
      rank(i) == 1 + Cardinality({j \in 1..n : buckets[j].lvl > buckets[i].lvl})
  IN  [k \in 1..n |-> buckets[CHOOSE i \in 1..n : rank(i) = k]]

EnumerateWith(choices) ==
  /\ pc = "enumerate"
  /\ IF is_container
     THEN \E bad \in choices :
            LET listed == list_assets(asset, asset_types, recursive, inclusive,
                                      expand_image_collections,
                                      image_collections_exclusively, ns, bad)
            IN  /\ calls' = calls \o ContainerCalls \o listed.calls
                /\ IF listed.ok
                   THEN /\ asset_list' = listed.recs
                        /\ assets_ordered' =
                             SortedReverse(GroupByLevel(listed.recs, <<>>))
                        /\ ordered_bound' = TRUE
                        /\ pc' = "listed"
                        /\ err' = err
                   ELSE /\ Raise(listed.err)
                        /\ UNCHANGED <<asset_list, assets_ordered,
                                       ordered_bound>>
     ELSE /\ calls' = calls \o ContainerCalls
                      \o <<Call("get", asset, asset \in ns)>>
          /\ asset_list' = <<[name |-> asset, type |-> Kind[asset]]>>
          /\ pc' = "listed"
          /\ err' = err
          /\ UNCHANGED <<assets_ordered, ordered_bound>>
  /\ UNCHANGED <<args, asset_types, image_collections_exclusively,
                 delete_confirmation, pending, results, ns, prompts, answer>>

Enumerate == EnumerateWith(BadChoices)

(***************************************************************************)
(* prune, lines 281-285: the dry run                                       *)
(***************************************************************************)
DryRun ==
  /\ pc = "listed"
  /\ dry_run
  /\ results' = [results EXCEPT !.skipped = get_asset_names(asset_list)]
  /\ pc' = "done"
  /\ UNCHANGED <<args, asset_types, image_collections_exclusively, asset_list,
                 assets_ordered, ordered_bound, delete_confirmation, pending,
                 err, ns, calls, prompts, answer>>

(***************************************************************************)
(* prune, lines 287-291, and _request_del_confirmation                     *)
(***************************************************************************)
\* variant: the confirmation is reached without the dry_run test
GateIgnoringDryRun ==
  /\ pc = "listed"
  /\ IF silent
     THEN delete_confirmation' = "yes" /\ pc' = "decided"
     ELSE delete_confirmation' = delete_confirmation /\ pc' = "confirm"
  /\ UNCHANGED <<args, asset_types, image_collections_exclusively, asset_list,
                 assets_ordered, ordered_bound, pending, results, err, ns,
                 calls, prompts, answer>>

Gate ==
  /\ pc = "listed"
  /\ ~dry_run
  /\ IF silent
     THEN delete_confirmation' = "yes" /\ pc' = "decided"
     ELSE delete_confirmation' = delete_confirmation /\ pc' = "confirm"
  /\ UNCHANGED <<args, asset_types, image_collections_exclusively, asset_list,
                 assets_ordered, ordered_bound, pending, results, err, ns,
                 calls, prompts, answer>>

\* variant: the empty answer does not end the loop
EndsLoopOnYesOrNo(a) == lower(a) \in {"y", "n"}

\* the answers that end the confirmation loop
EndsLoop(a) == lower(a) \in {"y", "n", ""}

\* variant: every answer but "n" confirms
ConfirmedUnlessNo(a) == lower(a) # "n"

\* the value _request_del_confirmation returns
Confirmed(a) == lower(a) = "y"

Ask ==
  /\ pc = "confirm"
  /\ prompts < MaxPrompts
  /\ \E a \in Answers :
       /\ EndsLoop(a) \/ prompts + 1 < MaxPrompts
       /\ answer' = a
       /\ prompts' = prompts + 1
       /\ IF EndsLoop(a)
          THEN /\ delete_confirmation' = IF Confirmed(a) THEN "yes" ELSE "no"
               /\ pc' = "decided"
          ELSE /\ delete_confirmation' = delete_confirmation
               /\ pc' = "confirm"
  /\ UNCHANGED <<args, asset_types, image_collections_exclusively, asset_list,
                 assets_ordered, ordered_bound, pending, results, err, ns,
                 calls>>

(***************************************************************************)
(* prune, lines 293-316: deleting, or skipping everything                  *)
(***************************************************************************)
\* the order in which the nested loops of lines 307-308 visit the assets
RECURSIVE Flatten(_)
Flatten(buckets) ==
  IF buckets = <<>> THEN <<>>
  ELSE Head(buckets).assets \o Flatten(Tail(buckets))

\* variant: a failed delete is recorded nowhere
_delete_forgets_failure(res, a, ok) ==
  IF ok
  THEN [res EXCEPT !.deleted = Append(@, a)]
  ELSE res

\* the bookkeeping of _delete, ok telling whether ee.data.deleteAsset returned
_delete(res, a, ok) ==
  IF ok
  THEN [res EXCEPT !.deleted = Append(@, a)]
  ELSE [res EXCEPT !.failed = Append(@, a)]

\* variant: a failed delete ends the loop
RemainingUntilFailure(todo, ok) == IF ok THEN Tail(todo) ELSE <<>>

\* what is left to visit after one call of _delete
Remaining(todo, ok) == Tail(todo)

BeginDelete ==
  /\ pc = "decided"
  /\ delete_confirmation = "yes"
  /\ IF ordered_bound
     THEN /\ pending' = Flatten(assets_ordered)
          /\ pc' = "deleting"
          /\ err' = err
     ELSE /\ Raise("UnboundLocalError")
          /\ UNCHANGED pending
  /\ UNCHANGED <<args, asset_types, image_collections_exclusively, asset_list,
                 assets_ordered, ordered_bound, delete_confirmation, results,
                 ns, calls, prompts, answer>>

\* a remote service that refuses to delete a missing asset and a container
\* that still has children, and nothing else
Deletable(a, live) == a \in live /\ ~\E c \in live : IsChild(c, a)

\* what ee.data.deleteAsset may do: return (TRUE) or raise (FALSE)
DeleteOutcomes(a, live, strict) ==
  IF strict THEN {Deletable(a, live)}
  ELSE IF a \in live THEN BOOLEAN ELSE {FALSE}

\* variant: the exception of a failed delete is not caught
DeleteRaisingAgainst(strict) ==
  /\ pc = "deleting"
  /\ pending # <<>>
  /\ LET a == Head(pending) IN
     \E ok \in DeleteOutcomes(a, ns, strict) :
       /\ calls' = Append(calls, Call("delete", a, ok))
       /\ ns' = IF ok THEN ns \ {a} ELSE ns
       /\ results' = IF ok THEN _delete(results, a, ok) ELSE results
       /\ pending' = Remaining(pending, ok)
       /\ IF ok THEN pc' = pc /\ err' = err ELSE Raise("RemoteError")
  /\ UNCHANGED <<args, asset_types, image_collections_exclusively, asset_list,
                 assets_ordered, ordered_bound, delete_confirmation,
                 prompts, answer>>

DeleteAgainst(strict) ==
  /\ pc = "deleting"
  /\ pending # <<>>
  /\ LET a == Head(pending) IN
     \E ok \in DeleteOutcomes(a, ns, strict) :
       /\ calls' = Append(calls, Call("delete", a, ok))
       /\ ns' = IF ok THEN ns \ {a} ELSE ns
       /\ results' = _delete(results, a, ok)
       /\ pending' = Remaining(pending, ok)
  /\ UNCHANGED <<args, asset_types, image_collections_exclusively, asset_list,
                 assets_ordered, ordered_bound, delete_confirmation, pc, err,
                 prompts, answer>>

Delete == DeleteAgainst(FALSE)

Finish ==
  /\ pc = "deleting"
  /\ pending = <<>>
  /\ pc' = "done"
  /\ UNCHANGED <<args, locals, err, ns, calls, prompts, answer>>

Decline ==
  /\ pc = "decided"
  /\ delete_confirmation = "no"
  /\ results' = [results EXCEPT !.skipped = get_asset_names(asset_list)]
  /\ pc' = "done"
  /\ UNCHANGED <<args, asset_types, image_collections_exclusively, asset_list,
                 assets_ordered, ordered_bound, delete_confirmation, pending,
                 err, ns, calls, prompts, answer>>

Next ==
  \/ Exists
  \/ Validate
  \/ Enumerate
  \/ DryRun
  \/ Gate
  \/ Ask
  \/ BeginDelete
  \/ Delete
  \/ Finish
  \/ Decline

Spec == Init /\ [][Next]_vars

(***************************************************************************)
(* prune against a reliable remote service: no listing fails, and a delete *)
(* is refused only for a container that still has children.                *)
(***************************************************************************)
EnumerateReliable == EnumerateWith({{}})

DeleteStrict == DeleteAgainst(TRUE)

StrictNext ==
  \/ Exists
  \/ Validate
  \/ EnumerateReliable
  \/ DryRun
  \/ Gate
  \/ Ask
  \/ BeginDelete
  \/ DeleteStrict
  \/ Finish
  \/ Decline

SpecStrict == Init /\ [][StrictNext]_vars

(***************************************************************************)
(* list_assets called on its own                                           *)
(***************************************************************************)
Parent(path) == SubSeq(path, 1, Len(path) - 1)

\* the namespaces list_assets is called against: every tree of at most
\* MaxAssets assets
ListNamespaces ==
  {S \in SUBSET Range(AllAssets) :
     /\ Cardinality(S) <= MaxAssets
     /\ \A c \in S : Len(c) > 1 => Parent(c) \in S}

\* the asset_types list_assets is called with
ListFilters ==
  {{}, {"IMAGE"}, {"IMAGE_COLLECTION"}, {"IMAGE_COLLECTION", "IMAGE"},
   {"folder"}, {"FOLDER", "TABLE"}, {"TABLE"}, {"BOGUS", "IMAGE"}}

ListInit ==
  /\ ns \in ListNamespaces
  /\ asset \in ns \cup {PX}
  /\ asset_types_arg \in ListFilters
  /\ recursive \in BOOLEAN
  /\ expand_image_collections \in BOOLEAN
  /\ inclusive \in BOOLEAN
  /\ image_collections_exclusively \in BOOLEAN
  /\ silent = FALSE
  /\ dry_run = FALSE
  /\ asset_types = {}
  /\ asset_list = <<>>
  /\ assets_ordered = <<>>
  /\ ordered_bound = FALSE
  /\ delete_confirmation = "unset"
  /\ pending = <<>>
  /\ results = [deleted |-> <<>>, failed |-> <<>>, skipped |-> <<>>]
  /\ pc = "list"
  /\ err = "none"
  /\ calls = <<>>
  /\ prompts = 0
  /\ answer = "none"

ListCall ==
  /\ pc = "list"
  /\ \E bad \in BadChoices :
       LET listed == list_assets(asset, asset_types_arg, recursive, inclusive,
                                 expand_image_collections,
                                 image_collections_exclusively, ns, bad)
       IN  /\ calls' = listed.calls
           /\ IF listed.ok
              THEN /\ asset_list' = listed.recs
                   /\ pc' = "returned"
                   /\ err' = err
              ELSE /\ Raise(listed.err)
                   /\ UNCHANGED asset_list
  /\ UNCHANGED <<args, asset_types, image_collections_exclusively,
                 assets_ordered, ordered_bound, delete_confirmation, pending,
                 results, ns, prompts, answer>>

ListNext == ListCall

SpecList == ListInit /\ [][ListNext]_vars

(***************************************************************************)
(* Vocabulary of the properties                                            *)
(***************************************************************************)
DeleteCalls == SelectSeq(calls, LAMBDA c : c.op = "delete")

ListCalls == SelectSeq(calls, LAMBDA c : c.op = "list")

Candidates == get_asset_names(asset_list)

\* how many times x occurs in the sequence s
Count(s, x) == Cardinality({i \in 1..Len(s) : s[i] = x})

\* how many delete calls were issued for the path p
Attempts(p) == Cardinality({i \in 1..Len(DeleteCalls) : DeleteCalls[i].path = p})

\* the run is over, with a result or with an exception
Ended == pc \in {"done", "error"}

\* the policy checks are behind
PastValidation == pc \notin {"exists", "validate"}

\* the namespace the run started from: only successful deletes change it
Original ==
  ns \cup {calls[i].path : i \in {j \in 1..Len(calls) :
                                   calls[j].op = "delete" /\ calls[j].ok}}

RootExists == asset \in Original

\* the type filter as the caller means it: upper case, empty meaning all
RequestedTypes ==
  IF asset_types_arg = {} THEN ALLOWED_ASSET_TYPES
  ELSE {IF t = "folder" THEN "FOLDER" ELSE t : t \in asset_types_arg}

KnownTypes == RequestedTypes \subseteq ALLOWED_ASSET_TYPES

(***************************************************************************)
(* C1: on a container root, remote deletes are issued in non-increasing    *)
(* order of path depth, and when a delete is attempted every candidate of  *)
(* a greater depth has already had its delete attempted; hence a           *)
(* descendant is always attempted before its ancestor.                     *)
(***************************************************************************)
C1_DeepestFirst ==
  (RootExists /\ is_container) =>
    /\ \A i, j \in 1..Len(DeleteCalls) :
         i < j => Len(DeleteCalls[i].path) >= Len(DeleteCalls[j].path)
    /\ \A j \in 1..Len(DeleteCalls) : \A c \in Range(Candidates) :
         Len(c) > Len(DeleteCalls[j].path)
           => \E i \in 1..(j - 1) : DeleteCalls[i].path = c
    /\ \A i, j \in 1..Len(DeleteCalls) :
         IsDescendant(DeleteCalls[i].path, DeleteCalls[j].path) => i < j

\* a finished run that deleted on three levels, one delete having failed
C1_Witness ==
  /\ pc = "done"
  /\ is_container
  /\ \E i, j, k \in 1..Len(DeleteCalls) :
       /\ Len(DeleteCalls[i].path) = 3
       /\ Len(DeleteCalls[j].path) = 2
       /\ Len(DeleteCalls[k].path) = 1
       /\ IsDescendant(DeleteCalls[i].path, DeleteCalls[j].path)
       /\ ~DeleteCalls[i].ok

(***************************************************************************)
(* C2: once deleting has been decided, every candidate receives exactly    *)
(* one remote delete attempt, whatever the other attempts returned, and    *)
(* its path is in deleted exactly when the attempt succeeded and in failed *)
(* exactly when it failed.                                                 *)
(***************************************************************************)
C2_EveryCandidateAttemptedOnce ==
  (delete_confirmation = "yes" /\ Ended) =>
    \A c \in Range(Candidates) :
      /\ Attempts(c) = 1
      /\ \A i \in 1..Len(DeleteCalls) :
           DeleteCalls[i].path = c =>
             /\ DeleteCalls[i].ok <=> Count(results.deleted, c) = 1
             /\ ~DeleteCalls[i].ok <=> Count(results.failed, c) = 1

(***************************************************************************)
(* C3: a run that returns after deleting reports every candidate exactly   *)
(* once in deleted or failed and nothing in skipped; a dry run or a        *)
(* declined run reports exactly the candidates in skipped and nothing in   *)
(* deleted and failed.                                                     *)
(***************************************************************************)
C3_OutcomePartition ==
  pc = "done" =>
    IF delete_confirmation = "yes"
    THEN /\ Range(results.deleted) \cap Range(results.failed) = {}
         /\ \A c \in Range(Candidates) :
              /\ Count(Candidates, c) = 1
              /\ Count(results.deleted, c) + Count(results.failed, c) = 1
         /\ Len(results.deleted) + Len(results.failed) = Len(Candidates)
         /\ results.skipped = <<>>
    ELSE /\ results.skipped = Candidates
         /\ results.deleted = <<>>
         /\ results.failed = <<>>

\* a finished run with both successful and failed deletes
C3_Witness ==
  /\ pc = "done"
  /\ delete_confirmation = "yes"
  /\ Len(results.deleted) >= 2
  /\ Len(results.failed) >= 2

(***************************************************************************)
(* C4: when the root is an IMAGE or a TABLE and the policy is valid, the   *)
(* only candidate is the root, and once deletion is confirmed the run      *)
(* issues exactly one remote delete, for the root, and returns with the    *)
(* root in deleted or in failed.                                           *)
(***************************************************************************)
C4_SingleAssetDeleted ==
  (RootExists /\ ~is_container) =>
    /\ pc \in {"listed", "confirm", "decided", "deleting", "done"}
         => Candidates = <<asset>>
    /\ (delete_confirmation = "yes" /\ Ended) =>
         /\ pc = "done"
         /\ Len(DeleteCalls) = 1
         /\ DeleteCalls[1].path = asset
         /\ Count(results.deleted, asset) + Count(results.failed, asset) = 1

(***************************************************************************)
(* C5: when prune fails policy validation, no remote call of any sort has  *)
(* been made.                                                              *)
(***************************************************************************)
C5_NoRemoteCallBeforeRejection ==
  (pc = "error" /\ err = "InvalidPolicy") => calls = <<>>

(***************************************************************************)
(* C5 (amended): when prune fails policy validation, no listing and no     *)
(* delete has been issued; the remote calls made are lookups of the root,  *)
(* the first of them being the existence check.                            *)
(***************************************************************************)
C5_OnlyRootLookupsBeforeRejection ==
  (pc = "error" /\ err = "InvalidPolicy") =>
    /\ Len(calls) >= 1
    /\ \A i \in 1..Len(calls) : calls[i].op = "get" /\ calls[i].path = asset

\* a request rejected by the flag rule, after the kind of the root was read
C5_Witness ==
  /\ pc = "error"
  /\ err = "InvalidPolicy"
  /\ asset_types_arg = {}
  /\ ~recursive
  /\ Len(calls) = 2

(***************************************************************************)
(* C6: without silent and dry_run, the prompt is shown only once the       *)
(* enumeration is over (no listing follows a prompt), a remote delete is   *)
(* issued only after an affirmative answer, and after a decline no remote  *)
(* delete is ever issued.                                                  *)
(***************************************************************************)
C6_ConfirmationGate ==
  /\ [](( ~silent /\ ~dry_run ) =>
          /\ prompts > 0 => pc \in {"confirm", "decided", "deleting",
                                    "done", "error"}
          /\ DeleteCalls # <<>> =>
               (prompts > 0 /\ answer \in {"y", "Y"}
                /\ delete_confirmation = "yes")
          /\ delete_confirmation = "no" => DeleteCalls = <<>>
          /\ (Ended /\ prompts > 0 /\ answer \notin {"y", "Y"})
               => DeleteCalls = <<>>)
  /\ [][( ~silent /\ ~dry_run /\ (prompts > 0 \/ prompts' > 0) )
          => ListCalls' = ListCalls]_vars

\* a run that was confirmed at the prompt and then deleted
C6_Witness ==
  /\ ~silent
  /\ ~dry_run
  /\ pc = "done"
  /\ prompts > 0
  /\ answer = "Y"
  /\ Len(DeleteCalls) >= 2

(***************************************************************************)
(* C7: a dry run never shows the prompt and never issues a remote delete,  *)
(* whatever silent is; it ends right after the listing with every          *)
(* candidate in skipped.                                                   *)
(***************************************************************************)
C7_DryRun ==
  dry_run =>
    /\ prompts = 0
    /\ DeleteCalls = <<>>
    /\ pc \in {"exists", "validate", "enumerate", "listed", "done", "error"}
    /\ delete_confirmation = "unset"
    /\ pc = "done" => /\ results.skipped = Candidates
                      /\ results.deleted = <<>>
                      /\ results.failed = <<>>

\* a finished dry run with silent set and several candidates
C7_Witness ==
  /\ dry_run
  /\ silent
  /\ pc = "done"
  /\ Len(results.skipped) >= 3

(***************************************************************************)
(* C8: one answer other than "y" or "Y" ends the confirmation gate with    *)
(* the decision false, whatever the answer is.                             *)
(***************************************************************************)
C8_AnyOtherAnswerDeclines ==
  [][(pc = "confirm" /\ prompts' = prompts + 1 /\ answer' \notin {"y", "Y"})
       => (pc' = "decided" /\ delete_confirmation' = "no")]_vars

(***************************************************************************)
(* C8 (amended): the answers "n", "N" and the empty answer end the gate    *)
(* with the decision false, and the run then moves every candidate to      *)
(* skipped without deleting; an answer that is none of "y", "Y", "n", "N"  *)
(* and the empty answer leaves the gate open: the prompt is shown again.   *)
(***************************************************************************)
C8_OnlyNoOrEmptyDeclines ==
  /\ [][(pc = "confirm" /\ prompts' = prompts + 1) =>
          /\ answer' \in {"n", "N", ""}
               => (pc' = "decided" /\ delete_confirmation' = "no")
          /\ answer' \notin {"y", "Y", "n", "N", ""}
               => (pc' = "confirm" /\ delete_confirmation' = "unset")]_vars
  /\ []((delete_confirmation = "no" /\ pc = "done") =>
          /\ results.skipped = Candidates
          /\ results.deleted = <<>>
          /\ results.failed = <<>>
          /\ DeleteCalls = <<>>)

\* a run declined by the empty answer after another answer was refused
C8_Witness ==
  /\ pc = "done"
  /\ prompts = 2
  /\ answer = ""
  /\ delete_confirmation = "no"
  /\ Len(results.skipped) >= 2

(***************************************************************************)
(* C9: every request whose types contain FOLDER without all four types,    *)
(* or contain IMAGE_COLLECTION with expand_image_collections false, is     *)
(* rejected with InvalidPolicy, no listing and no delete being issued.     *)
(***************************************************************************)
RejectedTypes ==
  /\ KnownTypes
  /\ \/ "FOLDER" \in RequestedTypes /\ RequestedTypes # ALLOWED_ASSET_TYPES
     \/ "IMAGE_COLLECTION" \in RequestedTypes /\ ~expand_image_collections

C9_RejectedWithInvalidPolicy ==
  (PastValidation /\ RejectedTypes) =>
    /\ pc = "error"
    /\ err = "InvalidPolicy"
    /\ ListCalls = <<>>
    /\ DeleteCalls = <<>>

(***************************************************************************)
(* C9 (amended): the same, for every request on a root that exists; on a   *)
(* root that does not exist the run fails before the policy checks.        *)
(***************************************************************************)
C9_RejectedWhenRootExists ==
  /\ (PastValidation /\ RejectedTypes /\ RootExists) =>
       /\ pc = "error"
       /\ err = "InvalidPolicy"
       /\ ListCalls = <<>>
       /\ DeleteCalls = <<>>
  /\ (PastValidation /\ ~RootExists) =>
       /\ pc = "error"
       /\ err = "NotFound"
       /\ ListCalls = <<>>
       /\ DeleteCalls = <<>>

\* FOLDER (given in lower case) with IMAGE only, all flags set, is rejected
C9_Witness ==
  /\ pc = "error"
  /\ err = "InvalidPolicy"
  /\ RootExists
  /\ asset_types_arg = {"folder", "IMAGE"}
  /\ recursive
  /\ expand_image_collections

(***************************************************************************)
(* C10: every request whose types include FOLDER and that has recursive    *)
(* or expand_image_collections false is rejected with InvalidPolicy, for   *)
(* every kind of root.                                                     *)
(***************************************************************************)
C10_FolderNeedsBothFlags ==
  (PastValidation /\ RootExists /\ KnownTypes
     /\ "FOLDER" \in RequestedTypes
     /\ (~recursive \/ ~expand_image_collections))
    => (pc = "error" /\ err = "InvalidPolicy")

(***************************************************************************)
(* C10 (amended): a request whose types include FOLDER is rejected with    *)
(* InvalidPolicy when expand_image_collections is false, and when          *)
(* recursive is false and the root is not an IMAGE_COLLECTION; on an       *)
(* IMAGE_COLLECTION root, all four types with recursive false and          *)
(* expand_image_collections true pass the policy checks.                   *)
(***************************************************************************)
C10_FolderFlagsUnlessCollectionRoot ==
  /\ (PastValidation /\ RootExists /\ KnownTypes
        /\ "FOLDER" \in RequestedTypes
        /\ \/ ~expand_image_collections
           \/ ~recursive /\ Kind[asset] # "IMAGE_COLLECTION")
       => (pc = "error" /\ err = "InvalidPolicy")
  /\ (PastValidation /\ RootExists
        /\ RequestedTypes = ALLOWED_ASSET_TYPES
        /\ Kind[asset] = "IMAGE_COLLECTION"
        /\ ~recursive /\ expand_image_collections)
       => err # "InvalidPolicy"

\* a folder root with all types and recursive false is rejected, the kind
\* of the root having been looked up
C10_Witness ==
  /\ pc = "error"
  /\ err = "InvalidPolicy"
  /\ RootExists
  /\ Kind[asset] = "FOLDER"
  /\ asset_types_arg = {}
  /\ ~recursive
  /\ expand_image_collections
  /\ Len(calls) = 2

(***************************************************************************)
(* Vocabulary of the properties about the enumeration                      *)
(***************************************************************************)
Names == {asset_list[i].name : i \in 1..Len(asset_list)}

\* the run has its candidate list
Enumerated ==
  \/ pc \in {"listed", "confirm", "decided", "deleting", "done"}
  \/ pc = "error" /\ err = "UnboundLocalError"

\* the caller asks for image collections without naming images
CollectionsOnlyRequest ==
  /\ KnownTypes
  /\ "IMAGE_COLLECTION" \in RequestedTypes
  /\ "IMAGE" \notin RequestedTypes

\* the container x was listed
Listed(x) == \E i \in 1..Len(calls) : calls[i].op = "list" /\ calls[i].path = x

\* an image directly under a folder
StandaloneImage(d) == Kind[d] = "IMAGE" /\ Kind[Parent(d)] = "FOLDER"

(***************************************************************************)
(* C11: when the types contain IMAGE_COLLECTION but not IMAGE, IMAGE is    *)
(* added and image_collections_exclusively is set, and the candidates      *)
(* contain every image of a listed image collection and no image whose     *)
(* parent is a folder; no such image is ever deleted.                      *)
(***************************************************************************)
C11_NoStandaloneImage ==
  (CollectionsOnlyRequest /\ RootExists /\ Enumerated) =>
    /\ image_collections_exclusively
    /\ asset_types = RequestedTypes \cup {"IMAGE"}
    /\ \A d \in Original :
         (Kind[d] = "IMAGE" /\ Kind[Parent(d)] = "IMAGE_COLLECTION"
            /\ Listed(Parent(d))) => d \in Names
    /\ \A c \in Names : ~StandaloneImage(c)
    /\ \A i \in 1..Len(DeleteCalls) : ~StandaloneImage(DeleteCalls[i].path)

(***************************************************************************)
(* C11 (amended): the same for a run on a FOLDER or IMAGE_COLLECTION root; *)
(* on an IMAGE or TABLE root the root is the only candidate, whatever its  *)
(* parent and its type.                                                    *)
(***************************************************************************)
C11_NoStandaloneImageBelowContainer ==
  (CollectionsOnlyRequest /\ RootExists /\ Enumerated) =>
    /\ image_collections_exclusively
    /\ asset_types = RequestedTypes \cup {"IMAGE"}
    /\ is_container =>
         /\ \A d \in Original :
              (Kind[d] = "IMAGE" /\ Kind[Parent(d)] = "IMAGE_COLLECTION"
                 /\ Listed(Parent(d))) => d \in Names
         /\ \A c \in Names : ~StandaloneImage(c)
    /\ ~is_container => Candidates = <<asset>>
    /\ \A i \in 1..Len(DeleteCalls) : ~StandaloneImage(DeleteCalls[i].path)

\* a finished sweep from the top folder that deleted the images of the
\* collections at both depths and left the standalone image alone
C11_Witness ==
  /\ pc = "done"
  /\ asset = P0
  /\ asset_types_arg = {"IMAGE_COLLECTION"}
  /\ recursive
  /\ {PN1, PC1, PC2, PN, PC} \subseteq {DeleteCalls[i].path : i \in 1..Len(DeleteCalls)}
  /\ PS \in Original
  /\ PS \notin Names

(***************************************************************************)
(* C12: list_assets on /proj with asset_types [IMAGE_COLLECTION],          *)
(* recursive and expand_image_collections, on the namespace of collection  *)
(* /proj/ic with images i1, i2 and the image /proj/a/standalone, returns   *)
(* i1, i2 and the collection, and not standalone.                          *)
(***************************************************************************)
SweepScenario ==
  /\ pc = "returned"
  /\ ns = {P0, PA, PS, PC, PC1, PC2}
  /\ asset = P0
  /\ asset_types_arg = {"IMAGE_COLLECTION"}
  /\ recursive
  /\ expand_image_collections

C12_SweepIncludesImages ==
  SweepScenario => ({PC, PC1, PC2} \subseteq Names /\ PS \notin Names)

(***************************************************************************)
(* C12 (amended): that call returns the collection /proj/ic and nothing    *)
(* else: not standalone, and not i1 and i2 either, IMAGE not being one of  *)
(* the asset_types.  With asset_types [IMAGE_COLLECTION, IMAGE] and        *)
(* image_collections_exclusively it returns i1, i2 and the collection and  *)
(* not standalone.                                                         *)
(***************************************************************************)
C12_SweepReturnsCollectionOnly ==
  /\ SweepScenario => Candidates = <<PC>>
  /\ (/\ pc = "returned"
      /\ ns = {P0, PA, PS, PC, PC1, PC2}
      /\ asset = P0
      /\ asset_types_arg = {"IMAGE_COLLECTION", "IMAGE"}
      /\ recursive
      /\ expand_image_collections
      /\ image_collections_exclusively
      /\ ~inclusive)
       => Candidates = <<PC, PC1, PC2>>

\* the call of the scenario has returned after listing the three containers
C12_Witness ==
  /\ SweepScenario
  /\ Len(ListCalls) = 3
  /\ Len(asset_list) = 1

(***************************************************************************)
(* C13: list_assets on a parent whose type resolves to something other     *)
(* than FOLDER or IMAGE_COLLECTION raises NotAContainer, lists nothing and *)
(* returns nothing; no call, at any level, lists an asset that is not a    *)
(* container.                                                              *)
(***************************************************************************)
C13_NotAContainer ==
  /\ (/\ pc # "list"
      /\ calls # <<>>
      /\ calls[1] = Call("get", asset, TRUE)
      /\ Kind[asset] \notin {"FOLDER", "IMAGE_COLLECTION"})
       => /\ pc = "error"
          /\ err = "NotAContainer"
          /\ ListCalls = <<>>
          /\ asset_list = <<>>
  /\ \A i \in 1..Len(calls) :
       /\ calls[i].op = "list"
            => Kind[calls[i].path] \in {"FOLDER", "IMAGE_COLLECTION"}
       /\ (calls[i].op = "get" /\ calls[i].ok
             /\ Kind[calls[i].path] \notin {"FOLDER", "IMAGE_COLLECTION"})
            => (i = Len(calls) /\ pc = "error" /\ err = "NotAContainer")

\* list_assets refused a table after resolving its type
C13_Witness ==
  /\ pc = "error"
  /\ err = "NotAContainer"
  /\ asset = PT
  /\ asset_types_arg = {}
  /\ calls = <<Call("get", PT, TRUE)>>

(***************************************************************************)
(* What a traversal is meant to reach, stated on the tree itself           *)
(***************************************************************************)
\* image collections are expanded in the call on root
ExpandsFrom(root) ==
  expand_image_collections \/ Kind[root] = "IMAGE_COLLECTION"

\* the traversal from root goes on below the container x
Through(x, root) ==
  \/ Kind[x] = "FOLDER" /\ recursive
  \/ Kind[x] = "IMAGE_COLLECTION" /\ ExpandsFrom(root)

\* d is met by the traversal from root: every asset between them is entered
Reached(d, root) ==
  /\ d \in ns
  /\ IsDescendant(d, root)
  /\ \A x \in ns : (IsDescendant(x, root) /\ IsDescendant(d, x))
                     => Through(x, root)

\* d is appended when it is met
Kept(d) ==
  \/ ~image_collections_exclusively
  \/ Kind[d] # "IMAGE"
  \/ Kind[Parent(d)] = "IMAGE_COLLECTION"

\* the paths list_assets accumulates before its final filter
Accumulated(root) ==
  (IF inclusive THEN {root} ELSE {})
  \cup {d \in ns : Reached(d, root) /\ Kept(d)}

ListedPaths == {ListCalls[i].path : i \in 1..Len(ListCalls)}

(***************************************************************************)
(* C14: with an empty filter, recursive and inclusive, list_assets on a    *)
(* container returns the root and every descendant reachable through       *)
(* folders (and through image collections when they are expanded or the    *)
(* root is one), each once and with its type, and lists each container it  *)
(* enters exactly once.                                                    *)
(***************************************************************************)
C14_FullTraversal ==
  (/\ pc = "returned"
   /\ asset_types_arg = {}
   /\ recursive
   /\ inclusive
   /\ ~image_collections_exclusively)
    => /\ Names = {asset} \cup
                  {d \in ns :
                     /\ IsDescendant(d, asset)
                     /\ \A x \in ns :
                          (IsDescendant(x, asset) /\ IsDescendant(d, x))
                            => \/ Kind[x] = "FOLDER"
                               \/ /\ Kind[x] = "IMAGE_COLLECTION"
                                  /\ \/ expand_image_collections
                                     \/ Kind[asset] = "IMAGE_COLLECTION"}
       /\ Len(asset_list) = Cardinality(Names)
       /\ \A i \in 1..Len(asset_list) :
            asset_list[i].type = Kind[asset_list[i].name]
       /\ Len(ListCalls) = Cardinality(ListedPaths)
       /\ ListedPaths =
            {asset} \cup
            {x \in Names : /\ x # asset
                           /\ \/ Kind[x] = "FOLDER"
                              \/ /\ Kind[x] = "IMAGE_COLLECTION"
                                 /\ expand_image_collections}

\* the scenario tree /proj/a with the empty folder b and the image img
C14_Witness ==
  /\ pc = "returned"
  /\ ns = {P0, PA, PB, PI}
  /\ asset = PA
  /\ asset_types_arg = {}
  /\ recursive
  /\ inclusive
  /\ ~image_collections_exclusively
  /\ asset_list = <<[name |-> PA, type |-> "FOLDER"],
                    [name |-> PB, type |-> "FOLDER"],
                    [name |-> PI, type |-> "IMAGE"]>>
  /\ Len(ListCalls) = 2

(***************************************************************************)
(* C15: list_assets returns exactly the accumulated records whose type is  *)
(* one of the asset_types of the top-level call (all four when empty): the *)
(* root is returned iff inclusive is set and its type is asked for, and    *)
(* what nested calls found is filtered by the top-level types only.        *)
(***************************************************************************)
C15_FilterAtTheEnd ==
  pc = "returned" =>
    /\ \A i \in 1..Len(asset_list) : asset_list[i].type \in RequestedTypes
    /\ Names = {d \in Accumulated(asset) : Kind[d] \in RequestedTypes}
    /\ Len(asset_list) = Cardinality(Names)
    /\ asset \in Names <=> (inclusive /\ Kind[asset] \in RequestedTypes)

\* images only: the root, the containers and the table are dropped, the
\* images of the nested levels are returned
C15_Witness ==
  /\ pc = "returned"
  /\ asset_types_arg = {"IMAGE"}
  /\ inclusive
  /\ recursive
  /\ asset = P0
  /\ PI \in Names
  /\ PC1 \in Names
  /\ PT \in ns
  /\ {P0, PA, PC, PT} \cap Names = {}

(***************************************************************************)
(* C16: the split per level puts every candidate in exactly one bucket,    *)
(* the one whose key is the number of parts of its path; no bucket is      *)
(* empty and the buckets are iterated in strictly descending key order.    *)
(***************************************************************************)
C16_DepthBuckets ==
  ordered_bound =>
    /\ \A c \in Range(Candidates) :
         \E i \in 1..Len(assets_ordered) :
           /\ assets_ordered[i].lvl = Len(c)
           /\ Count(assets_ordered[i].assets, c) = 1
           /\ \A j \in 1..Len(assets_ordered) :
                j # i => Count(assets_ordered[j].assets, c) = 0
    /\ \A i \in 1..Len(assets_ordered) :
         /\ assets_ordered[i].assets # <<>>
         /\ Range(assets_ordered[i].assets) \subseteq Range(Candidates)
    /\ \A i, j \in 1..Len(assets_ordered) :
         i < j => assets_ordered[i].lvl > assets_ordered[j].lvl

\* a plan with four buckets, the deepest first
C16_Witness ==
  /\ ordered_bound
  /\ Len(assets_ordered) = 4
  /\ assets_ordered[1].lvl = 4
  /\ Len(assets_ordered[2].assets) >= 2

(***************************************************************************)
(* Vocabulary of the properties about the deleting loop                    *)
(***************************************************************************)
\* the position of the delete call for path p (0 when there is none)
AttemptAt(p) ==
  IF Attempts(p) = 0 THEN 0
  ELSE CHOOSE i \in 1..Len(DeleteCalls) : DeleteCalls[i].path = p

\* the delete of p was attempted and returned
Succeeded(p) == Attempts(p) = 1 /\ DeleteCalls[AttemptAt(p)].ok

\* the delete of p was attempted and raised
Refused(p) == Attempts(p) = 1 /\ ~DeleteCalls[AttemptAt(p)].ok

\* prune of the folder /proj/a holding the empty folder b and the image
\* img, everything asked for, has returned after deleting
FolderScenario ==
  /\ pc = "done"
  /\ delete_confirmation = "yes"
  /\ Original = NsBase
  /\ asset = PA
  /\ RequestedTypes = ALLOWED_ASSET_TYPES
  /\ recursive
  /\ expand_image_collections
  /\ inclusive

\* exactly one delete of a path of three parts raised
OneDeepFailure ==
  Cardinality({i \in 1..Len(DeleteCalls) :
                 Len(DeleteCalls[i].path) = 3 /\ ~DeleteCalls[i].ok}) = 1

(***************************************************************************)
(* C17: in the scenario, when exactly one of the deletes of /proj/a/b and  *)
(* /proj/a/img fails, the delete of /proj/a is still attempted and the     *)
(* outcome has the failed path in failed and every other candidate,        *)
(* /proj/a included, in deleted.                                           *)
(***************************************************************************)
C17_OthersAllDeleted ==
  (FolderScenario /\ OneDeepFailure) =>
    /\ Attempts(PA) = 1
    /\ Len(results.failed) = 1
    /\ Len(results.failed[1]) = 3
    /\ Range(results.deleted) = {PA, PB, PI} \ Range(results.failed)

(***************************************************************************)
(* C17 (amended): in the scenario, when exactly one of the deletes of      *)
(* /proj/a/b and /proj/a/img fails, both have been attempted, the delete   *)
(* of /proj/a is then attempted, the failed path is in failed, the other   *)
(* path of three parts is in deleted, and /proj/a is in deleted when its   *)
(* own delete returned and in failed when it raised.                       *)
(***************************************************************************)
C17_RootStillAttempted ==
  (FolderScenario /\ OneDeepFailure) =>
    /\ Attempts(PB) = 1 /\ Attempts(PI) = 1 /\ Attempts(PA) = 1
    /\ AttemptAt(PA) = 3
    /\ \A p \in {PA, PB, PI} :
         /\ Succeeded(p) <=> Count(results.deleted, p) = 1
         /\ Refused(p) <=> Count(results.failed, p) = 1
         /\ Count(results.deleted, p) + Count(results.failed, p) = 1
    /\ Len(results.deleted) + Len(results.failed) = 3
    /\ results.skipped = <<>>

\* the delete of b was refused and so was, after it, the delete of /proj/a
C17_Witness ==
  /\ FolderScenario
  /\ OneDeepFailure
  /\ results.deleted = <<PI>>
  /\ results.failed = <<PB, PA>>

(***************************************************************************)
(* C18: once the policy checks and the lookup of the root have passed,     *)
(* prune always ends by returning its results.                             *)
(***************************************************************************)
C18_AlwaysReturns ==
  (Ended /\ err \notin {"NotFound", "InvalidPolicy"}) => pc = "done"

(***************************************************************************)
(* C18 (amended): no failure of a remote delete leaves prune: a run that   *)
(* has attempted a delete never ends with an exception, and a refused      *)
(* delete is recorded in failed.  A failure of a listing during the        *)
(* enumeration does leave prune as an exception, before any delete and     *)
(* with nothing recorded in the results.                                   *)
(***************************************************************************)
C18_DeleteFailuresStayInside ==
  /\ DeleteCalls # <<>> => (pc \in {"deleting", "done"} /\ err = "none")
  /\ \A i \in 1..Len(DeleteCalls) :
       ~DeleteCalls[i].ok => Count(results.failed, DeleteCalls[i].path) = 1
  /\ (pc = "error" /\ err = "RemoteError") =>
       /\ calls[Len(calls)].op = "list"
       /\ ~calls[Len(calls)].ok
       /\ DeleteCalls = <<>>
       /\ results = [deleted |-> <<>>, failed |-> <<>>, skipped |-> <<>>]

\* a run that returned although every one of its deletes was refused
C18_Witness ==
  /\ pc = "done"
  /\ Len(DeleteCalls) >= 3
  /\ \A i \in 1..Len(DeleteCalls) : ~DeleteCalls[i].ok
  /\ Len(results.failed) = Len(DeleteCalls)

(***************************************************************************)
(* C19: against a remote service that refuses a delete only for a          *)
(* container that still has children, a confirmed prune of a container     *)
(* with every type, recursive, expand_image_collections and inclusive ends *)
(* with failed empty, deleted holding the root and all its descendants,    *)
(* and the subtree gone; no delete is refused on the way.                  *)
(***************************************************************************)
Subtree(root, live) == {d \in live : d = root \/ IsDescendant(d, root)}

C19_WholeSubtreeRemoved ==
  (/\ RootExists
   /\ is_container
   /\ KnownTypes
   /\ RequestedTypes = ALLOWED_ASSET_TYPES
   /\ recursive
   /\ expand_image_collections
   /\ inclusive
   /\ delete_confirmation = "yes")
    => /\ \A i \in 1..Len(DeleteCalls) : DeleteCalls[i].ok
       /\ results.failed = <<>>
       /\ Ended =>
            /\ pc = "done"
            /\ Range(results.deleted) = Subtree(asset, Original)
            /\ Len(results.deleted) = Cardinality(Subtree(asset, Original))
            /\ Subtree(asset, ns) = {}
            /\ ns = Original \ Subtree(asset, Original)

\* the whole namespace NsSweep, four levels deep, has been removed
C19_Witness ==
  /\ pc = "done"
  /\ asset = P0
  /\ Original = NsSweep
  /\ ns = {}
  /\ Len(results.deleted) = 8
  /\ results.failed = <<>>

(***************************************************************************)
(* C20: every path passed to the remote delete is a candidate, is the root *)
(* or one of its descendants, and has a type that is one of the (adjusted) *)
(* asset_types.                                                            *)
(***************************************************************************)
C20_OnlyCandidatesDeleted ==
  \A i \in 1..Len(DeleteCalls) :
    /\ DeleteCalls[i].path \in Range(Candidates)
    /\ \/ DeleteCalls[i].path = asset
       \/ IsDescendant(DeleteCalls[i].path, asset)
    /\ Kind[DeleteCalls[i].path] \in asset_types

\* the images below /proj/a were deleted, the folders and the assets next
\* to /proj/a were not touched
C20_Witness ==
  /\ pc = "done"
  /\ asset = PA
  /\ asset_types_arg = {"IMAGE"}
  /\ recursive
  /\ results.deleted = <<PI>>
  /\ {P0, PA, PB, PC, PC1, PT} \subseteq ns

=============================================================================
